---- MODULE Spec2Model ----
(***************************************************************************)
(* A model of src/tutorial_poc.py: the HTTP test client                    *)
(* (MangaTranslatorAPIClient), the test runner (run_tests) and the         *)
(* command-line entry point (main).                                        *)
(*                                                                         *)
(* The program is sequential.  One action of the model is one stretch of   *)
(* code between two points where the outside world is consulted: the file  *)
(* system (os.path.exists, open, Image.save), the HTTP server              *)
(* (requests.get / requests.post) and the call / return of a client        *)
(* operation.  The server and the file system are the environment: their   *)
(* answers are chosen nondeterministically from small sets.                *)
(*                                                                         *)
(* Spec        is the program as started from the command line (main).     *)
(* SpecClient  drives one call of any of the six client operations, which  *)
(*             is how the two operations main never calls                  *)
(*             (translate_image, translate_json_stream) are exercised.     *)
(***************************************************************************)
EXTENDS Integers, Sequences, FiniteSets, TLC

VARIABLES
    args,       \* argparse namespace: host, port, test, image, output
    fs,         \* file system: path -> "missing" | "file" | "dir"
    pil,        \* whether `from PIL import Image` succeeds
    pc,         \* position of main / run_tests (or of the driver in SpecClient)
    client,     \* the MangaTranslatorAPIClient: base_url, host, port
    op,         \* the frame of the client operation being executed
    results,    \* run_tests' `results` dict, in insertion order
    stdout,     \* what was printed, in order
    netlog,     \* the HTTP requests handed to `requests`, in order
    oplog,      \* the client operations called, in order
    envlog,     \* the envelopes the client operations returned, in order
    inflight,   \* number of HTTP calls sent and not yet answered
    handles,    \* number of open file objects
    uncaught    \* the exception that ended the process, or NoExc

vars == <<args, fs, pil, pc, client, op, results, stdout, netlog, oplog,
          envlog, inflight, handles, uncaught>>

(***************************************************************************)
(* Python values                                                           *)
(***************************************************************************)

\* argparse's default for --image; the empty string is the other falsy path.
PyNone == "None"

\* Python truthiness of an optional string (`if args.image:`).
Truthy(s) == s \notin {PyNone, ""}

\* A JSON / Python value: its type, and its compact JSON text (for a str, the
\* string itself).
JVal(type, text) == [type |-> type, text |-> text]

\* json.dumps of a value.
JsonText(v) == IF v.type = "str" THEN "\"" \o v.text \o "\"" ELSE v.text

\* What marks a body Response.json() cannot decode.
NotJson == JVal("invalid", "")

\* An optional config dict: None, or a sequence of <<key, value>> string pairs.
NoConfig == [none |-> TRUE, items |-> <<>>]

Dict(items) == [none |-> FALSE, items |-> items]

\* `config or {}`: None and the empty dict are both falsy.
ConfigOrEmpty(config) ==
    IF config.none \/ config.items = <<>> THEN Dict(<<>>) ELSE config

RECURSIVE JsonItems(_)
\* The members of json.dumps(dict) with the default separators ", " and ": ".
JsonItems(items) ==
    IF items = <<>> THEN ""
    ELSE LET kv == "\"" \o Head(items)[1] \o "\": \"" \o Head(items)[2] \o "\""
         IN  IF Len(items) = 1 THEN kv
             ELSE kv \o ", " \o JsonItems(Tail(items))

\* json.dumps(d) of a dict of string keys and string values.
JsonDumps(d) == "{" \o JsonItems(d.items) \o "}"

(***************************************************************************)
(* Exceptions                                                              *)
(***************************************************************************)

NoExc == "none"

\* Transport failures requests.get / requests.post raise.
TransportFailures == {"ConnectionError", "Timeout"}

\* A narrower except clause: `except requests.exceptions.ConnectionError`.
IsConnectionError(e) == e = "ConnectionError"

\* `except requests.exceptions.RequestException`: ConnectionError, Timeout and
\* requests.exceptions.JSONDecodeError (raised by Response.json()) derive from
\* it; the OSErrors raised by open and Image.save do not.
IsRequestException(e) == e \in {"ConnectionError", "Timeout", "JSONDecodeError"}

\* str(e)
StrExc(e) ==
    CASE e = "ConnectionError" -> "Connection refused"
      [] e = "Timeout" -> "Read timed out."
      [] e = "JSONDecodeError" -> "Expecting value: line 1 column 1 (char 0)"
      [] e = "FileNotFoundError" -> "No such file or directory"
      [] OTHER -> "Is a directory"

(***************************************************************************)
(* The server's replies                                                    *)
(***************************************************************************)

Reply(status, text, json, ctype) ==
    [status |-> status, text |-> text, json |-> json,
     headers |-> IF ctype = "" THEN {} ELSE {<<"content-type", ctype>>}]

NoReply == Reply(0, "", NotJson, "")

\* The replies the server is let to give: every status class, and bodies that
\* are empty, a JSON object, a JSON number, a JSON string, and not JSON.
Replies ==
    { Reply(200, "", NotJson, ""),
      Reply(200, "{\"ok\": true}", JVal("dict", "{\"ok\": true}"), "application/json"),
      Reply(200, "42", JVal("int", "42"), "application/json"),
      Reply(200, "\"ok\"", JVal("str", "ok"), "application/json"),
      Reply(200, "PNG", NotJson, "image/png"),
      Reply(200, "PNG", NotJson, ""),
      Reply(404, "{\"detail\": \"Not Found\"}",
            JVal("dict", "{\"detail\": \"Not Found\"}"), "application/json"),
      Reply(500, "Internal Server Error", NotJson, "text/plain"),
      Reply(500, "", NotJson, ""),
      Reply(500, "{\"detail\": \"boom\"}",
            JVal("dict", "{\"detail\": \"boom\"}"), "application/json") }

\* response.headers.get(name, default)
HeaderGet(headers, name, default) ==
    IF \E h \in headers : h[1] = name
    THEN (CHOOSE h \in headers : h[1] = name)[2]
    ELSE default

\* Whether response.json() returns (TRUE) or raises JSONDecodeError (FALSE).
JsonDecodes(resp) == resp.json # NotJson

(***************************************************************************)
(* The client: MangaTranslatorAPIClient                                    *)
(***************************************************************************)

HealthTimeout == 5
TranslateTimeout == 300
QueueTimeout == 5
ResultsTimeout == 5

OpNames == {"test_health", "translate_json", "translate_image",
            "translate_json_stream", "queue_size", "results_list"}

TranslateOps == {"translate_json", "translate_image", "translate_json_stream"}

\* __init__
NewClient(host, port) ==
    [base_url |-> "http://" \o host \o ":" \o ToString(port),
     host |-> host, port |-> port]

\* The route each operation requests.
Route(name) ==
    CASE name = "test_health" -> "/"
      [] name = "translate_json" -> "/translate/with-form/json"
      [] name = "translate_image" -> "/translate/with-form/image"
      [] name = "translate_json_stream" -> "/translate/with-form/json/stream"
      [] name = "queue_size" -> "/queue-size"
      [] OTHER -> "/results/list"

\* The timeout each operation passes.
TimeoutOf(name) ==
    CASE name = "test_health" -> HealthTimeout
      [] name \in TranslateOps -> TranslateTimeout
      [] name = "queue_size" -> QueueTimeout
      [] OTHER -> ResultsTimeout

\* os.path.basename of the paths of the model.
Basename(path) ==
    IF path = "/tmp/manga_sample.png" THEN "manga_sample.png" ELSE path

\* The request an operation hands to requests.get / requests.post.
Request(c, name, path, config) ==
    [method |-> IF name \in TranslateOps THEN "POST" ELSE "GET",
     url |-> c.base_url \o Route(name),
     timeout |-> TimeoutOf(name),
     field |-> IF name \in TranslateOps THEN "image" ELSE "",
     file |-> IF name \in TranslateOps THEN path ELSE "",
     filename |-> IF name \in TranslateOps THEN Basename(path) ELSE "",
     filetype |-> IF name \in TranslateOps THEN "image/png" ELSE "",
     config |-> IF name \in TranslateOps
                THEN JsonDumps(ConfigOrEmpty(config)) ELSE ""]

\* The precondition test left out.
ExistsAlways(path) == TRUE

\* os.path.exists
Exists(path) == fs[path] # "missing"

\* The envelope of the local precondition failure.
FileNotFound(path) == [success |-> FALSE, error |-> "File not found: " \o path]

\* The envelope of the `except RequestException as e` clauses.
Failure(e) == [success |-> FALSE, error |-> StrExc(e)]

\* Whether building the envelope calls response.json().
Decodes(name, resp) ==
    CASE name = "test_health" -> resp.text # ""
      [] name \in {"translate_json", "queue_size", "results_list"} -> TRUE
      [] OTHER -> FALSE

\* A client that reads HTTP semantics: success only below 400.
ReplySuccessByStatus(resp) == resp.status < 400

\* The `success` every operation writes in the envelope of a reply.
ReplySuccess(resp) == TRUE

\* The envelope of a reply whose body the operation can decode.
Envelope(name, resp) ==
    CASE name = "test_health" ->
           [success |-> ReplySuccess(resp), status_code |-> resp.status,
            data |-> IF resp.text # "" THEN resp.json
                     ELSE JVal("dict", "{\"message\": \"Server is running\"}")]
      [] name = "translate_json" ->
           [success |-> ReplySuccess(resp), status_code |-> resp.status,
            data |-> resp.json]
      [] name = "translate_image" ->
           [success |-> ReplySuccess(resp), status_code |-> resp.status,
            data |-> JVal("str", HeaderGet(resp.headers, "content-type", "unknown")),
            image_data |-> resp.text]
      [] name = "translate_json_stream" ->
           [success |-> ReplySuccess(resp), status_code |-> resp.status,
            data |-> JVal("str", HeaderGet(resp.headers, "content-type", "unknown"))]
      [] name = "queue_size" ->
           [success |-> ReplySuccess(resp), status_code |-> resp.status,
            data |-> JVal("dict", "{\"queue_size\": " \o JsonText(resp.json) \o "}")]
      [] OTHER ->
           [success |-> ReplySuccess(resp), status_code |-> resp.status,
            data |-> resp.json]

NoEnv == [success |-> FALSE]

\* The frame of a client operation.  step is where the operation stands:
\*   idle     no operation is running
\*   exists   translate_*: about to test os.path.exists(image_path)
\*   open     translate_*: about to open(image_path, "rb")
\*   send     about to call requests.get / requests.post
\*   wait     the HTTP call is in flight
\*   build    the reply is in; about to build the envelope
\*   close    translate_*: leaving the `with` block (ret or exc is pending)
\*   except   an exception reached the operation's try statement
\*   returned the envelope ret is handed to the caller
\*   raised   the exception exc leaves the operation
\* resp is the reply received (NoReply before it), exc the exception raised
\* inside the operation (NoExc if none), whether or not it was caught.
Frame(name, path, config, step) ==
    [name |-> name, path |-> path, config |-> config, step |-> step,
     resp |-> NoReply, exc |-> NoExc, ret |-> NoEnv]

Idle == Frame("", "", NoConfig, "idle")

\* Calling a client operation: the frame it starts in.
Call(name, path, config) ==
    Frame(name, path, config, IF name \in TranslateOps THEN "exists" ELSE "send")

\* A file closed by hand after the return value is built, not by `with`.
CloseOnReturnOnly(n, exc) == IF exc = NoExc THEN n - 1 ELSE n

\* The handle count after the `with open(...)` block is left, whether by the
\* return (exc = NoExc) or by an exception: the file is closed either way.
CloseHandle(n, exc) == n - 1

\* What open(path, "rb") raises when the path is not a regular file.
OpenError(state) ==
    IF state = "missing" THEN "FileNotFoundError" ELSE "IsADirectoryError"

\* `if not os.path.exists(image_path): return {...}`
OpExists ==
    /\ op.step = "exists"
    /\ IF Exists(op.path)
       THEN op' = [op EXCEPT !.step = "open"]
       ELSE op' = [op EXCEPT !.step = "returned", !.ret = FileNotFound(op.path)]
    /\ UNCHANGED <<args, fs, pil, pc, client, results, stdout, netlog, oplog,
                   envlog, inflight, handles, uncaught>>

\* `with open(image_path, "rb") as f:` -- open() raises on a directory, and
\* OSError is not a RequestException: it leaves the operation.
OpOpen ==
    /\ op.step = "open"
    /\ IF fs[op.path] = "file"
       THEN /\ handles' = handles + 1
            /\ op' = [op EXCEPT !.step = "send"]
       ELSE /\ handles' = handles
            /\ op' = [op EXCEPT !.step = "except", !.exc = OpenError(fs[op.path])]
    /\ UNCHANGED <<args, fs, pil, pc, client, results, stdout, netlog, oplog,
                   envlog, inflight, uncaught>>

\* requests.get(...) / requests.post(...): the request leaves.
OpSend ==
    /\ op.step = "send"
    /\ netlog' = Append(netlog, Request(client, op.name, op.path, op.config))
    /\ inflight' = inflight + 1
    /\ op' = [op EXCEPT !.step = "wait"]
    /\ UNCHANGED <<args, fs, pil, pc, client, results, stdout, oplog, envlog,
                   handles, uncaught>>

\* The HTTP call fails in transport: requests raises.
OpTransportFailure ==
    /\ op.step = "wait"
    /\ \E e \in TransportFailures :
         op' = [op EXCEPT !.exc = e,
                          !.step = IF op.name \in TranslateOps
                                   THEN "close" ELSE "except"]
    /\ inflight' = inflight - 1
    /\ UNCHANGED <<args, fs, pil, pc, client, results, stdout, netlog, oplog,
                   envlog, handles, uncaught>>

\* The HTTP call completes with a reply.
OpReply ==
    /\ op.step = "wait"
    /\ \E r \in Replies : op' = [op EXCEPT !.resp = r, !.step = "build"]
    /\ inflight' = inflight - 1
    /\ UNCHANGED <<args, fs, pil, pc, client, results, stdout, netlog, oplog,
                   envlog, handles, uncaught>>

\* `return {...}` inside the try: response.json() may raise JSONDecodeError.
OpBuild ==
    /\ op.step = "build"
    /\ LET next == IF op.name \in TranslateOps THEN "close" ELSE "returned"
           fail == IF op.name \in TranslateOps THEN "close" ELSE "except"
       IN  IF Decodes(op.name, op.resp) /\ ~JsonDecodes(op.resp)
           THEN op' = [op EXCEPT !.exc = "JSONDecodeError", !.step = fail]
           ELSE op' = [op EXCEPT !.ret = Envelope(op.name, op.resp),
                                 !.step = next]
    /\ UNCHANGED <<args, fs, pil, pc, client, results, stdout, netlog, oplog,
                   envlog, inflight, handles, uncaught>>

\* Leaving the `with` block, by return or by exception: the file is closed.
OpClose ==
    /\ op.step = "close"
    /\ handles' = CloseHandle(handles, op.exc)
    /\ op' = [op EXCEPT !.step = IF op.exc = NoExc THEN "returned" ELSE "except"]
    /\ UNCHANGED <<args, fs, pil, pc, client, results, stdout, netlog, oplog,
                   envlog, inflight, uncaught>>

\* `except requests.exceptions.RequestException as e: return {...}`
OpExcept ==
    /\ op.step = "except"
    /\ IF IsRequestException(op.exc)
       THEN op' = [op EXCEPT !.ret = Failure(op.exc), !.step = "returned"]
       ELSE op' = [op EXCEPT !.step = "raised"]
    /\ UNCHANGED <<args, fs, pil, pc, client, results, stdout, netlog, oplog,
                   envlog, inflight, handles, uncaught>>

\* Neither run_tests nor main has a try statement: an exception that leaves
\* a client operation ends the process.
Propagate ==
    /\ op.step = "raised"
    /\ pc # "crashed"
    /\ pc' = "crashed"
    /\ uncaught' = op.exc
    /\ UNCHANGED <<args, fs, pil, client, op, results, stdout, netlog, oplog,
                   envlog, inflight, handles>>

ClientStep ==
    \/ OpExists
    \/ OpOpen
    \/ OpSend
    \/ OpTransportFailure
    \/ OpReply
    \/ OpBuild
    \/ OpClose
    \/ OpExcept
    \/ Propagate

(***************************************************************************)
(* Inputs                                                                  *)
(***************************************************************************)

SamplePath == "/tmp/manga_sample.png"

ImagePath == "page.png"

Paths == {SamplePath, ImagePath}

FileStates == {"missing", "file", "dir"}

SampleConfig == Dict(<< <<"source_lang", "ja">>, <<"target_lang", "en">> >>)

Configs == {NoConfig, Dict(<<>>), SampleConfig}

DefaultHost == "localhost"

DefaultPort == 8000

Selectors == {"all", "health", "translate", "queue", "results"}

Outputs == {"summary", "json"}

ArgSets ==
    [host : {DefaultHost}, port : {DefaultPort}, test : Selectors,
     image : {PyNone, "", ImagePath}, output : Outputs]

InitCommon ==
    /\ fs \in [Paths -> FileStates]
    /\ pil \in BOOLEAN
    /\ op = Idle
    /\ results = <<>>
    /\ stdout = <<>>
    /\ netlog = <<>>
    /\ oplog = <<>>
    /\ envlog = <<>>
    /\ inflight = 0
    /\ handles = 0
    /\ uncaught = NoExc

(***************************************************************************)
(* Printing                                                                *)
(***************************************************************************)

\* One print() call: what kind of line it is, and its text.  The layout of
\* json.dumps(..., indent=2) and the cut to max_text_length characters are
\* not modelled: the text is the compact JSON of the value.
Line(tag, text) == [tag |-> tag, text |-> text]

\* print("=" * 60)
Rule60 ==
    Line("RULE", "============================================================")

\* print("-" * 50)
Rule50 == Line("RULE", "--------------------------------------------------")

\* print_response
PrintResponse(env) ==
    IF ~env.success
    THEN << Line("ERROR", "[ERROR] " \o env.error) >>
    ELSE << Line("STATUS", "[INFO] Status: " \o ToString(env.status_code)) >>
         \o (CASE env.data.type = "dict" ->
                    << Line("DATA", "[DATA]"), Line("DATA", env.data.text) >>
               [] env.data.type = "str" ->
                    << Line("DATA", "[DATA] (length: "
                                    \o ToString(Len(env.data.text)) \o ")"),
                       Rule50, Line("DATA", env.data.text), Rule50 >>
               [] OTHER -> << >>)
         \o (IF "image_data" \in DOMAIN env
             THEN << Line("IMAGE", "[IMAGE] Type: " \o env.data.text
                                   \o ", Size: " \o ToString(Len(env.image_data))
                                   \o " bytes") >>
             ELSE << >>)

\* json.dumps(result, indent=2) of an envelope.
JsonEnvelope(env) ==
    IF env.success
    THEN "{\"success\": true, \"status_code\": " \o ToString(env.status_code)
         \o ", \"data\": " \o JsonText(env.data) \o "}"
    ELSE "{\"success\": false, \"error\": \"" \o env.error \o "\"}"

RECURSIVE JsonResultItems(_)
JsonResultItems(d) ==
    IF d = <<>> THEN ""
    ELSE LET kv == "\"" \o Head(d).name \o "\": "
                   \o (IF Head(d).passed THEN "true" ELSE "false")
         IN  IF Len(d) = 1 THEN kv ELSE kv \o ", " \o JsonResultItems(Tail(d))

\* json.dumps(results, indent=2) of the result set.
JsonResults(d) == "{" \o JsonResultItems(d) \o "}"

(***************************************************************************)
(* The test runner: run_tests                                              *)
(***************************************************************************)

\* results[name] = passed on a dict kept in insertion order.
DictSet(d, name, passed) ==
    IF \E i \in 1..Len(d) : d[i].name = name
    THEN [i \in 1..Len(d) |->
            IF d[i].name = name THEN [name |-> name, passed |-> passed] ELSE d[i]]
    ELSE Append(d, [name |-> name, passed |-> passed])

Keys(d) == {d[i].name : i \in 1..Len(d)}

\* A runner that also reads the status code.
RecordedByStatus(env) == env.success /\ env.status_code < 400

\* result.get("success", False)
Recorded(env) == env.success

\* The early return for "health" alone.
EarlyReturnHealthOnly(test_type) == test_type = "health"

\* `if test_type in ("all", "health"): return results`
EarlyReturn(test_type) == test_type \in {"all", "health"}

\* The queue test under "all" alone.
RunsQueueOnlyAll(test_type) == test_type = "all"

\* `if test_type in ("all", "queue"):`
RunsQueue(test_type) == test_type \in {"all", "queue"}

\* `if test_type in ("all", "results"):`
RunsResults(test_type) == test_type \in {"all", "results"}

\* `if test_type in ("all", "translate"):`
RunsTranslate(test_type) == test_type \in {"all", "translate"}

\* The translation attempted without looking for the sample.
SampleUsableAlways(files) == TRUE

\* `if os.path.exists(sample_img):` after create_sample_image
SampleUsable(files) == files[SamplePath] # "missing"

\* The banner run_tests starts with.
Banner(c, test_type) ==
    << Rule60,
       Line("BANNER", "Manga Image Translator API Test Suite"),
       Rule60,
       Line("BANNER", "Base URL: " \o c.base_url),
       Line("BANNER", "Test Type: " \o test_type),
       Rule60 >>

\* A summary that stops one entry short.
SummaryLinesButLast(d) ==
    [i \in 1..(Len(d) - 1) |->
        Line("SUMMARY", "  " \o (IF d[i].passed THEN "[PASS]" ELSE "[FAIL]")
                         \o " " \o d[i].name)]

\* The lines of the final summary, one per entry of results.
SummaryLines(d) ==
    [i \in 1..Len(d) |->
        Line("SUMMARY", "  " \o (IF d[i].passed THEN "[PASS]" ELSE "[FAIL]")
                         \o " " \o d[i].name)]

\* The envelope the operation that just returned handed over.
Returned(label) == pc = label /\ op.step = "returned"

\* What every caller does with a returned envelope: the frame is gone.
Receive ==
    /\ envlog' = Append(envlog, [name |-> op.name, env |-> op.ret])
    /\ op' = Idle

\* What every caller does to call a client operation.
Invoke(name, path, config) ==
    /\ op' = Call(name, path, config)
    /\ oplog' = Append(oplog, [name |-> name, path |-> path, config |-> config])

\* run_tests up to the call of client.test_health().
RunBanner ==
    /\ pc = "run_tests"
    /\ results' = <<>>
    /\ stdout' = stdout \o Banner(client, args.test)
                        \o << Line("TEST", "[TEST 1] Health Check") >>
    /\ Invoke("test_health", "", NoConfig)
    /\ pc' = "t1_ret"
    /\ UNCHANGED <<args, fs, pil, client, netlog, envlog, inflight, handles,
                   uncaught>>

\* Test 1 recorded and printed; then the early return.
T1Done ==
    /\ Returned("t1_ret")
    /\ results' = DictSet(results, "health", Recorded(op.ret))
    /\ stdout' = stdout \o PrintResponse(op.ret)
    /\ Receive
    /\ pc' = IF EarlyReturn(args.test) THEN "main_ret" ELSE "t2"
    /\ UNCHANGED <<args, fs, pil, client, netlog, oplog, inflight, handles,
                   uncaught>>

\* Test 2: queue size.
T2 ==
    /\ pc = "t2"
    /\ IF RunsQueue(args.test)
       THEN /\ stdout' = Append(stdout, Line("TEST", "[TEST 2] Queue Size"))
            /\ Invoke("queue_size", "", NoConfig)
            /\ pc' = "t2_ret"
       ELSE /\ pc' = "t3"
            /\ UNCHANGED <<stdout, op, oplog>>
    /\ UNCHANGED <<args, fs, pil, client, results, netlog, envlog, inflight,
                   handles, uncaught>>

T2Done ==
    /\ Returned("t2_ret")
    /\ results' = DictSet(results, "queue_size", Recorded(op.ret))
    /\ stdout' = stdout \o PrintResponse(op.ret)
    /\ Receive
    /\ pc' = "t3"
    /\ UNCHANGED <<args, fs, pil, client, netlog, oplog, inflight, handles,
                   uncaught>>

\* Test 3: results list.
T3 ==
    /\ pc = "t3"
    /\ IF RunsResults(args.test)
       THEN /\ stdout' = Append(stdout, Line("TEST", "[TEST 3] Results List"))
            /\ Invoke("results_list", "", NoConfig)
            /\ pc' = "t3_ret"
       ELSE /\ pc' = "t4"
            /\ UNCHANGED <<stdout, op, oplog>>
    /\ UNCHANGED <<args, fs, pil, client, results, netlog, envlog, inflight,
                   handles, uncaught>>

T3Done ==
    /\ Returned("t3_ret")
    /\ results' = DictSet(results, "results_list", Recorded(op.ret))
    /\ stdout' = stdout \o PrintResponse(op.ret)
    /\ Receive
    /\ pc' = "t4"
    /\ UNCHANGED <<args, fs, pil, client, netlog, oplog, inflight, handles,
                   uncaught>>

\* create_sample_image: the file system it leaves.  Image.save opens the path
\* for writing, which creates or overwrites a file.
AfterSave(files) == [files EXCEPT ![SamplePath] = "file"]

\* create_sample_image: whether img.save raises (the path is a directory).
SaveRaises(files) == files[SamplePath] = "dir"

\* Test 4: the sample image is created if PIL is there, and translated if it
\* exists afterwards.
T4 ==
    /\ pc = "t4"
    /\ IF ~RunsTranslate(args.test)
       THEN /\ pc' = "summary"
            /\ UNCHANGED <<fs, stdout, op, oplog, results, uncaught>>
       ELSE LET head == << Line("TEST", "[TEST 4] Image Translation (JSON)"),
                           Line("INFO", "[INFO] Creating sample image...") >>
                nopil == << Line("INFO",
                    "[INFO] PIL not available, skipping sample image creation") >>
                files == IF pil THEN AfterSave(fs) ELSE fs
            IN  IF pil /\ SaveRaises(fs)
                THEN /\ pc' = "crashed"
                     /\ uncaught' = "IsADirectoryError"
                     /\ stdout' = stdout \o head
                     /\ UNCHANGED <<fs, op, oplog, results>>
                ELSE /\ fs' = files
                     /\ uncaught' = uncaught
                     /\ IF SampleUsable(files)
                        THEN /\ stdout' = stdout \o head
                                          \o (IF pil THEN << >> ELSE nopil)
                             /\ Invoke("translate_json", SamplePath, SampleConfig)
                             /\ pc' = "t4_ret"
                             /\ results' = results
                        ELSE /\ stdout' = stdout \o head
                                  \o (IF pil THEN << >> ELSE nopil)
                                  \o << Line("INFO",
                                     "[INFO] Skipping translation test (no sample image)") >>
                             /\ results' = DictSet(results, "translate_json", FALSE)
                             /\ pc' = "summary"
                             /\ UNCHANGED <<op, oplog>>
    /\ UNCHANGED <<args, pil, client, netlog, envlog, inflight, handles>>

T4Done ==
    /\ Returned("t4_ret")
    /\ results' = DictSet(results, "translate_json", Recorded(op.ret))
    /\ stdout' = stdout \o PrintResponse(op.ret)
    /\ Receive
    /\ pc' = "summary"
    /\ UNCHANGED <<args, fs, pil, client, netlog, oplog, inflight, handles,
                   uncaught>>

\* The final summary, and `return results`.
Summary ==
    /\ pc = "summary"
    /\ stdout' = stdout \o << Rule60, Line("BANNER", "Test Summary"), Rule60 >>
                        \o SummaryLines(results) \o << Rule60 >>
    /\ pc' = "main_ret"
    /\ UNCHANGED <<args, fs, pil, client, op, results, netlog, oplog, envlog,
                   inflight, handles, uncaught>>

RunTests ==
    \/ RunBanner
    \/ T1Done
    \/ T2
    \/ T2Done
    \/ T3
    \/ T3Done
    \/ T4
    \/ T4Done
    \/ Summary

(***************************************************************************)
(* The command-line entry point: main                                      *)
(***************************************************************************)

\* `if args.image:`
UseImage(a) == Truthy(a.image)

\* The two output formats taken for each other.
JsonOutputSwapped(a) == a.output # "json"

\* `if args.output == "json":`
JsonOutput(a) == a.output = "json"

\* main up to the call of translate_json or of run_tests.
Main ==
    /\ pc = "main"
    /\ IF UseImage(args)
       THEN /\ Invoke("translate_json", args.image, NoConfig)
            /\ pc' = "img_ret"
       ELSE /\ pc' = "run_tests"
            /\ UNCHANGED <<op, oplog>>
    /\ UNCHANGED <<args, fs, pil, client, results, stdout, netlog, envlog,
                   inflight, handles, uncaught>>

\* The envelope of the single translation is printed.
MainImageDone ==
    /\ Returned("img_ret")
    /\ stdout' = IF JsonOutput(args)
                 THEN Append(stdout, Line("JSON", JsonEnvelope(op.ret)))
                 ELSE stdout \o PrintResponse(op.ret)
    /\ Receive
    /\ pc' = "exit"
    /\ UNCHANGED <<args, fs, pil, client, results, netlog, oplog, inflight,
                   handles, uncaught>>

\* run_tests returned its result set.
MainRunnerDone ==
    /\ pc = "main_ret"
    /\ stdout' = IF JsonOutput(args)
                 THEN Append(stdout, Line("JSON", JsonResults(results)))
                 ELSE stdout
    /\ pc' = "exit"
    /\ UNCHANGED <<args, fs, pil, client, op, results, netlog, oplog, envlog,
                   inflight, handles, uncaught>>

Init ==
    /\ InitCommon
    /\ args \in ArgSets
    /\ client = NewClient(args.host, args.port)
    /\ pc = "main"

Next ==
    \/ Main
    \/ MainImageDone
    \/ MainRunnerDone
    \/ RunTests
    \/ ClientStep

Spec == Init /\ [][Next]_vars

(***************************************************************************)
(* SpecClient: calls of any client operation, one after the other          *)
(***************************************************************************)

InitClient ==
    /\ InitCommon
    /\ args \in {a \in ArgSets : a.test = "all" /\ a.image = PyNone
                                  /\ a.output = "summary"}
    /\ client = NewClient(args.host, args.port)
    /\ pc = "driver"

\* The driver calls an operation; a translate operation gets any path and any
\* config.  The logs are those of the call: they start afresh with it.
DriverCall ==
    /\ pc = "driver"
    /\ \E name \in OpNames, path \in Paths \cup {""}, config \in Configs :
         /\ name \in TranslateOps <=> path # ""
         /\ name \notin TranslateOps => config = NoConfig
         /\ op' = Call(name, path, config)
         /\ oplog' = << [name |-> name, path |-> path, config |-> config] >>
    /\ netlog' = <<>>
    /\ envlog' = <<>>
    /\ pc' = "driver_ret"
    /\ UNCHANGED <<args, fs, pil, client, results, stdout, inflight, handles,
                   uncaught>>

\* The driver receives the envelope and is free to call again.
DriverReturn ==
    /\ Returned("driver_ret")
    /\ Receive
    /\ pc' = "driver"
    /\ UNCHANGED <<args, fs, pil, client, results, stdout, netlog, oplog,
                   inflight, handles, uncaught>>

NextClient ==
    \/ DriverCall
    \/ DriverReturn
    \/ ClientStep

SpecClient == InitClient /\ [][NextClient]_vars

(***************************************************************************)
(* Properties of the client operations (checked under SpecClient)          *)
(***************************************************************************)

\* The HTTP call of the current operation completed with a reply.
GotReply == op.resp # NoReply

\* The failures the specification lists as transport failures: connection
\* refused / DNS failure (ConnectionError), timeout, malformed response (a
\* body response.json() cannot decode).
ListedFailures == {"ConnectionError", "Timeout", "JSONDecodeError"}

\* The operation can read the reply's body: it does not decode it, or the
\* body is JSON, or it is the empty body of a health check.
Readable(name, resp) ==
    \/ name \in {"translate_image", "translate_json_stream"}
    \/ resp.json # NotJson
    \/ name = "test_health" /\ resp.text = ""

\* C1, as stated: an operation's envelope has success = true iff its HTTP
\* call completed without a transport failure, and a 4xx/5xx reply, whatever
\* its body, gives success = true with that status code.
C1_Original ==
    op.step = "returned" =>
        /\ op.ret.success <=> (GotReply /\ op.exc \notin ListedFailures)
        /\ (GotReply /\ op.resp.status >= 400) =>
               (op.ret.success /\ op.ret.status_code = op.resp.status)

\* C1, amended: success = true iff the HTTP call completed with a reply whose
\* body the operation can read (any body for translate image and stream, a
\* JSON body for translate JSON, queue size and results list, a JSON or empty
\* body for the health check); such a reply, 4xx/5xx included, gives
\* success = true with its status code and its body.
C1_Amended ==
    op.step = "returned" =>
        /\ op.ret.success <=> (GotReply /\ Readable(op.name, op.resp))
        /\ op.ret.success =>
              /\ op.ret.status_code = op.resp.status
              /\ op.name \in {"translate_json", "results_list"} =>
                     op.ret.data = op.resp.json
              /\ (op.name = "test_health" /\ op.resp.text # "") =>
                     op.ret.data = op.resp.json
              /\ op.name = "translate_image" =>
                     op.ret.image_data = op.resp.text

\* A 500 reply with a JSON body, returned as a success by translate_json.
C1_Witness ==
    /\ op.step = "returned"
    /\ op.name = "translate_json"
    /\ op.resp.status = 500
    /\ op.ret.success
    /\ op.ret.status_code = 500

\* C2: in each of the six operations a transport failure never leaves the
\* operation as an exception: it is on its way to, or has become, the
\* envelope {success: false, error: <non-empty message>}.
C2_NoRaise ==
    /\ op.exc \in ListedFailures =>
          /\ op.step \in {"close", "except", "returned"}
          /\ op.step = "returned" =>
                /\ op.ret = [success |-> FALSE, error |-> StrExc(op.exc)]
                /\ op.ret.error # ""
    /\ uncaught \notin ListedFailures

\* A timeout of the streaming translation, returned as an error envelope.
C2_Witness ==
    /\ op.step = "returned"
    /\ op.name = "translate_json_stream"
    /\ op.exc = "Timeout"
    /\ ~op.ret.success

\* C3: a translate operation called on a path that does not exist returns
\* exactly {success: false, error: "File not found: <path>"}, issues no
\* network call and opens no file.
C3_FileNotFound ==
    (op.name \in TranslateOps /\ fs[op.path] = "missing") =>
        /\ op.step \in {"exists", "returned"}
        /\ netlog = <<>>
        /\ inflight = 0
        /\ handles = 0
        /\ op.step = "returned" =>
              /\ op.ret = [success |-> FALSE,
                           error |-> "File not found: " \o op.path]
              /\ op.path = ImagePath =>
                     op.ret.error = "File not found: page.png"

\* translate_image returned from a missing path, with a config given.
C3_Witness ==
    /\ op.step = "returned"
    /\ op.name = "translate_image"
    /\ op.config = SampleConfig
    /\ fs[op.path] = "missing"
    /\ op.ret.error = "File not found: " \o op.path

\* C10: at most one HTTP call is in flight; a file handle is open only inside
\* a translate operation, from its open to the end of its `with` block around
\* the single HTTP call; it is closed before the envelope is returned or the
\* exception handled, so none is open between two operations.
C10_HandleScope ==
    /\ inflight \in {0, 1}
    /\ handles \in {0, 1}
    /\ inflight = 1 <=> op.step = "wait"
    /\ handles = 1 <=>
          (op.name \in TranslateOps /\ op.step \in {"send", "wait", "build", "close"})
    /\ op.step \in {"idle", "returned", "raised", "except"} => handles = 0
    /\ Len(netlog) <= 1

\* A translate operation returned after a transport failure, handle closed.
C10_Witness ==
    /\ op.step = "returned"
    /\ op.name = "translate_image"
    /\ op.exc = "ConnectionError"
    /\ Len(netlog) = 1
    /\ handles = 0

(***************************************************************************)
(* Properties of run_tests and main (checked under Spec)                   *)
(***************************************************************************)

\* main took the run_tests branch (no usable --image).
RunnerMode == args.image \in {PyNone, ""}

\* run_tests has returned.
RunnerReturned == RunnerMode /\ pc \in {"main_ret", "exit"}

OpNamesCalled == {oplog[i].name : i \in 1..Len(oplog)}

CallsOf(name) == Cardinality({i \in 1..Len(oplog) : oplog[i].name = name})

\* The value results holds for a key.
ResultOf(name) == results[CHOOSE i \in 1..Len(results) : results[i].name = name]

\* The envelope a client operation returned.
EnvelopeOf(name) ==
    envlog[CHOOSE i \in 1..Len(envlog) : envlog[i].name = name].env

\* C4, as stated: with selector `queue` the runner returns right after the
\* health check: queue_size is not called and is no key of the result set.
C4_Original ==
    (RunnerMode /\ args.test = "queue") =>
        /\ "queue_size" \notin OpNamesCalled
        /\ "queue_size" \notin Keys(results)

\* C4, amended: with selector `queue` the runner executes the health check
\* and then the queue-size operation, and returns a result set with exactly
\* the keys health and queue_size.
C4_Amended ==
    (RunnerMode /\ args.test = "queue") =>
        /\ \A i \in 1..Len(oplog) :
              oplog[i].name = (IF i = 1 THEN "test_health" ELSE "queue_size")
        /\ Len(oplog) <= 2
        /\ RunnerReturned =>
              /\ Len(oplog) = 2
              /\ Len(netlog) = 2
              /\ netlog[2].url = client.base_url \o "/queue-size"
              /\ Keys(results) = {"health", "queue_size"}

\* The runner returned under `queue` with queue_size recorded.
C4_Witness ==
    /\ RunnerReturned
    /\ args.test = "queue"
    /\ "queue_size" \in Keys(results)
    /\ CallsOf("queue_size") = 1

\* C5: with selector `health` or `all` the runner executes exactly one client
\* operation, the health check, and returns a result set whose only key is
\* health.
C5_HealthOnly ==
    (RunnerMode /\ args.test \in {"health", "all"}) =>
        /\ \A i \in 1..Len(oplog) : oplog[i].name = "test_health"
        /\ Len(oplog) <= 1
        /\ Len(netlog) <= 1
        /\ pc \notin {"t2", "t2_ret", "t3", "t3_ret", "t4", "t4_ret", "summary"}
        /\ RunnerReturned =>
              /\ Len(oplog) = 1
              /\ Len(netlog) = 1
              /\ Keys(results) = {"health"}

\* The runner returned under the default selector `all`.
C5_Witness ==
    /\ RunnerReturned
    /\ args.test = "all"
    /\ Keys(results) = {"health"}
    /\ Len(oplog) = 1

\* The key of results each operation of the runner is recorded under.
ResultKey(name) == IF name = "test_health" THEN "health" ELSE name

\* C6: in every run of the runner the health check is the first operation;
\* no operation and no request is issued twice; under `queue` (`results`) the
\* queue-size (results-list) check has been issued by the time the runner
\* returns, whatever the health check gave; and each recorded result is the
\* success flag of the envelope of its step.
C6_Sequence ==
    RunnerMode =>
        /\ oplog # <<>> => oplog[1].name = "test_health"
        /\ netlog # <<>> => netlog[1].url = client.base_url \o "/"
        /\ \A i, j \in 1..Len(oplog) : oplog[i].name = oplog[j].name => i = j
        /\ \A i, j \in 1..Len(netlog) : netlog[i].url = netlog[j].url => i = j
        /\ Len(netlog) <= Len(oplog)
        /\ (RunnerReturned /\ args.test = "queue") => "queue_size" \in OpNamesCalled
        /\ (RunnerReturned /\ args.test = "results") => "results_list" \in OpNamesCalled
        /\ \A i \in 1..Len(envlog) :
              /\ ResultKey(envlog[i].name) \in Keys(results)
              /\ ResultOf(ResultKey(envlog[i].name)).passed = envlog[i].env.success

\* The queue-size check issued and recorded after a failed health check.
C6_Witness ==
    /\ RunnerReturned
    /\ args.test = "queue"
    /\ Keys(results) = {"health", "queue_size"}
    /\ ~ResultOf("health").passed
    /\ "queue_size" \in OpNamesCalled
    /\ ResultOf("queue_size").passed

\* The Translate (JSON) call C7 speaks of.
SampleCall ==
    [name |-> "translate_json", path |-> SamplePath,
     config |-> Dict(<< <<"source_lang", "ja">>, <<"target_lang", "en">> >>)]

\* The runner is past its translation step.
PastTranslate == pc \in {"summary", "main_ret", "exit"}

\* C7, as stated: under `translate`, without the image library no Translate
\* call is issued and translate_json is recorded false, whatever the sample
\* path held before; with the library Translate (JSON) is called exactly once
\* on the sample path with the sample config.
C7_Original ==
    (RunnerMode /\ args.test = "translate") =>
        /\ ~pil =>
              /\ CallsOf("translate_json") = 0
              /\ PastTranslate =>
                    /\ "translate_json" \in Keys(results)
                    /\ ~ResultOf("translate_json").passed
        /\ (pil /\ (PastTranslate \/ pc = "crashed")) =>
              CallsOf("translate_json") = 1

\* C7, amended: under `translate`, the runner issues no Translate call and
\* records translate_json = false when the library is unavailable and the
\* sample path does not exist; it calls Translate (JSON) exactly once, on the
\* sample path with config {source_lang: "ja", target_lang: "en"}, and records
\* the success flag of the envelope that call returns, when the sample path
\* exists after the creation attempt (created by the library, or left there
\* before the run); and when the library is available but the sample path is
\* a directory, the creation raises and the run ends with no Translate call.
C7_Amended ==
    (RunnerMode /\ args.test = "translate") =>
        /\ CallsOf("translate_json") <= 1
        /\ \A i \in 1..Len(oplog) :
              oplog[i].name = "translate_json" => oplog[i] = SampleCall
        /\ \A i \in 1..Len(netlog) :
              netlog[i].method = "POST" =>
                  /\ netlog[i].file = SamplePath
                  /\ netlog[i].config =
                        "{\"source_lang\": \"ja\", \"target_lang\": \"en\"}"
        /\ (~pil /\ fs[SamplePath] = "missing") =>
              /\ CallsOf("translate_json") = 0
              /\ PastTranslate =>
                    /\ "translate_json" \in Keys(results)
                    /\ ~ResultOf("translate_json").passed
        /\ (~pil /\ fs[SamplePath] # "missing" /\ (PastTranslate \/ pc = "t4_ret")) =>
              CallsOf("translate_json") = 1
        /\ (pil /\ (PastTranslate \/ pc = "t4_ret")) =>
              /\ fs[SamplePath] = "file"
              /\ CallsOf("translate_json") = 1
        /\ (pil /\ fs[SamplePath] = "dir") =>
              /\ CallsOf("translate_json") = 0
              /\ ~PastTranslate
        /\ (PastTranslate /\ CallsOf("translate_json") = 1) =>
              ResultOf("translate_json").passed = EnvelopeOf("translate_json").success

\* Without the library, a sample left by an earlier run is translated.
C7_Witness ==
    /\ RunnerReturned
    /\ args.test = "translate"
    /\ ~pil
    /\ CallsOf("translate_json") = 1
    /\ ResultOf("translate_json").passed

\* The lines of stdout that belong to the final summary.
SummaryPrinted == SelectSeq(stdout, LAMBDA l : l.tag = "SUMMARY")

\* The summary line of one entry of the result set.
SummaryLineOf(r) ==
    IF r.passed THEN "  [PASS] " \o r.name ELSE "  [FAIL] " \o r.name

\* The summary is the last thing printed: one line per entry of results,
\* in the order of the result set, and the closing rule.
SummaryAtEnd ==
    /\ Len(SummaryPrinted) = Len(results)
    /\ Len(stdout) > Len(results)
    /\ stdout[Len(stdout)].tag = "RULE"
    /\ \A i \in 1..Len(results) :
          /\ SummaryPrinted[i].text = SummaryLineOf(results[i])
          /\ stdout[Len(stdout) - 1 - Len(results) + i] = SummaryPrinted[i]

\* C8, as stated: for every selector, run_tests has printed the summary, one
\* line per test name of the result set, when it returns the result set.
C8_Original == (RunnerMode /\ pc = "main_ret") => SummaryAtEnd

\* C8, amended: for every selector in {translate, queue, results}, a run of
\* the runner that returns has printed, last, the summary with one line per
\* test name of the result set; for `all` and `health` it returns right after
\* the health check and prints no summary.
C8_Amended ==
    (RunnerMode /\ pc = "main_ret") =>
        /\ args.test \in {"translate", "queue", "results"} =>
              (SummaryAtEnd /\ Len(results) = 2)
        /\ args.test \in {"all", "health"} => SummaryPrinted = <<>>

\* The runner returned under `results` with a two-line summary, one a failure.
C8_Witness ==
    /\ RunnerMode
    /\ pc = "main_ret"
    /\ args.test = "results"
    /\ Len(SummaryPrinted) = 2
    /\ SummaryPrinted[2].text = "  [FAIL] results_list"

\* C9: with an image path supplied (a non-empty --image), for any --test and
\* --output, the runner is not run and no health check is issued: there is
\* exactly one Translate (JSON) call, on that path, and its envelope is
\* printed as JSON under `json` and by the response printer otherwise;
\* without one, the runner is run with the given selector.
C9_EntryPoint ==
    /\ ~RunnerMode =>
          /\ \A i \in 1..Len(stdout) : stdout[i].tag \notin {"BANNER", "TEST", "SUMMARY"}
          /\ pc \notin {"run_tests", "t1_ret", "t2", "t2_ret", "t3", "t3_ret",
                         "t4", "t4_ret", "summary", "main_ret"}
          /\ results = <<>>
          /\ Len(oplog) <= 1
          /\ \A i \in 1..Len(oplog) :
                oplog[i] = [name |-> "translate_json", path |-> args.image,
                            config |-> NoConfig]
          /\ \A i \in 1..Len(netlog) :
                netlog[i].url = client.base_url \o "/translate/with-form/json"
          /\ pc # "main" => Len(oplog) = 1
          /\ pc = "exit" =>
                /\ Len(envlog) = 1
                /\ IF args.output = "json"
                   THEN stdout = << Line("JSON", JsonEnvelope(envlog[1].env)) >>
                   ELSE /\ stdout # <<>>
                        /\ \A i \in 1..Len(stdout) : stdout[i].tag # "JSON"
                        /\ stdout[1].tag =
                              (IF envlog[1].env.success THEN "STATUS" ELSE "ERROR")
    /\ (RunnerMode /\ pc \notin {"main", "run_tests"}) =>
          /\ \E i \in 1..Len(stdout) :
                stdout[i] = Line("BANNER", "Test Type: " \o args.test)
          /\ oplog[1].name = "test_health"

\* --image given with --test queue and --output json: one envelope, as JSON.
C9_Witness ==
    /\ pc = "exit"
    /\ args.image = ImagePath
    /\ args.test = "queue"
    /\ args.output = "json"
    /\ Len(stdout) = 1
    /\ stdout[1].tag = "JSON"
    /\ envlog[1].env.success

====
